---- MODULE Spec2Model ----
(***************************************************************************)
(* Model of the LoRaWAN telemetry pipeline:                                *)
(*   - MQTTToInfluxBridge.py: on_message, extract_device_id,               *)
(*     extract_parameters / flatten_json, write_to_influxdb, connect_mqtt; *)
(*   - influxdb_datalog_Alerts.py: fetch_last_logged_time,                 *)
(*     query_unique_device_ids, query_influxdb_for_device,                 *)
(*     check_and_alert_for_device, send_telegram_alert.                    *)
(*                                                                         *)
(* Strings that the code edits character by character (topic paths, JSON   *)
(* keys) are sequences of one-character strings.  A decoded JSON value is  *)
(* a record [t, v]: t is the Python type after json.loads, v its content.  *)
(* Floats are counted in tenths, so that the int 7 and the float 7.0 are   *)
(* different values ([t |-> "int", v |-> 7] and [t |-> "float", v |-> 70]).*)
(***************************************************************************)
EXTENDS Integers, Sequences, FiniteSets, TLC

VARIABLES
    \* ---- ingestion bridge (MQTTToInfluxBridge.py) ----
    h_pc,          \* "idle" | "callback" | "done": position of the network loop
    message,       \* the MQTT message handed to on_message, or NoMessage
    outcome,       \* how the running on_message call ended
    call_writes,   \* json_body lists passed to write_points by the running call
    db_exists,     \* whether INFLUXDB_DATABASE is in get_list_database()
    points_stored, \* number of points written to the measurement so far
    malformed,     \* number of messages so far whose payload was no JSON object
    handled,       \* number of messages delivered so far
    \* ---- connection supervisor (connect_mqtt / on_disconnect) ----
    c_pc,          \* "try" | "sleep" | "returned": position inside connect_mqtt
    link,          \* "down" | "up": state of the broker connection
    subscribed,    \* whether MQTT_TOPIC is subscribed on the current connection
    loop_running,  \* whether loop_start() has started the network thread
    failures,      \* failed attempts so far
    disconnects,   \* disconnect events so far
    \* ---- watcher (influxdb_datalog_Alerts.py) ----
    s_pc,          \* "idle" | "loop" | "done": position inside fetch_last_logged_time
    now,           \* wall clock, in ticks
    last_log,      \* store content: device id -> instant of its last point, or Absent
    pending,       \* identifiers of unique_device_ids not iterated yet
    listed,        \* unique_device_ids as returned to fetch_last_logged_time
    checked,       \* per identifier: how its check in this run ended
    alerts,        \* calls of send_telegram_alert made in this run
    log,           \* log lines written in this run
    faults,        \* kinds of failure that occurred in this run
    escaped,       \* whether an exception left fetch_last_logged_time
    scans,         \* number of runs started so far
    prev_alerted   \* identifiers alerted in the previous run

ingest_vars == <<h_pc, message, outcome, call_writes, db_exists, points_stored, malformed, handled>>
conn_vars == <<c_pc, link, subscribed, loop_running, failures, disconnects>>
watch_vars == <<s_pc, now, last_log, pending, listed, checked, alerts, log, faults, escaped, scans, prev_alerted>>
vars == <<ingest_vars, conn_vars, watch_vars>>

(***************************************************************************)
(* Bounds of the model.                                                    *)
(***************************************************************************)
\* JSON nodes below the root object of a generated payload
MaxNodes == 2
\* messages delivered in one behaviour
MaxMessages == 2
\* connection attempts that fail before the broker accepts for good
MaxFailures == 3
\* times the broker connection is lost in one behaviour
MaxDisconnects == 3
\* runs of the watcher in one behaviour
MaxScans == 2
\* clock resolution: ticks in one second
TicksPerSecond == 2

(***************************************************************************)
(* Text: split, replace, decimal formatting.                               *)
(***************************************************************************)
\* str.replace(old, new) for one-character old and new
Replace(s, old, new) ==
    [i \in 1..Len(s) |-> IF s[i] = old THEN new ELSE s[i]]

RECURSIVE SplitFrom(_, _, _, _)
SplitFrom(s, d, i, cur) ==
    IF i > Len(s) THEN <<cur>>
    ELSE IF s[i] = d THEN <<cur>> \o SplitFrom(s, d, i + 1, <<>>)
    ELSE SplitFrom(s, d, i + 1, Append(cur, s[i]))

\* str.split(d): the segments between the delimiters, empty ones included
Split(s, d) ==
    SplitFrom(s, d, 1, <<>>)

Digits ==
    <<"0", "1", "2", "3", "4", "5", "6", "7", "8", "9">>

\* str(i) of a non-negative int, as the f-string f"{k}_{i}" formats it
RECURSIVE IntToStr(_)
IntToStr(i) ==
    IF i < 10 THEN <<Digits[i + 1]>>
    ELSE IntToStr(i \div 10) \o <<Digits[(i % 10) + 1]>>

(***************************************************************************)
(* JSON values after json.loads.                                           *)
(***************************************************************************)
JNull == [t |-> "null", v |-> 0]
JBool(b) == [t |-> "bool", v |-> IF b THEN 1 ELSE 0]
JInt(n) == [t |-> "int", v |-> n]
\* an int whose magnitude exceeds the largest finite double: float() overflows
JHugeInt == [t |-> "hugeint", v |-> 0]
JFloat(tenths) == [t |-> "float", v |-> tenths]
JStr(s) == [t |-> "str", v |-> s]
JList(elems) == [t |-> "list", v |-> elems]
\* a dict: its (key, value) pairs in insertion order, keys distinct
JDict(pairs) == [t |-> "dict", v |-> pairs]

\* isinstance(v, int): bool is a subclass of int in Python
IsInt(v) == v.t \in {"int", "hugeint", "bool"}

STR_True == <<"T", "r", "u", "e">>
STR_False == <<"F", "a", "l", "s", "e">>
STR_device_id == <<"d", "e", "v", "i", "c", "e", "_", "i", "d">>
SEP == <<"_">>

(***************************************************************************)
(* extract_parameters: flatten_json and the type-coercion pass.            *)
(***************************************************************************)
\* line 65, the branch taken at the root (parent_key is falsy)
RootKey_unsanitized(k) ==
    k

RootKey(k) ==
    Replace(Replace(k, "-", "_"), ".", "_")

\* line 65: the key of an entry; an empty parent_key is falsy
NewKey(parent_key, sep, k) ==
    IF parent_key # <<>>
        THEN Replace(Replace(parent_key \o sep \o k, "-", "_"), ".", "_")
        ELSE RootKey(k)

\* dict.update: the entries of b replace those of a
Update(a, b) ==
    [k \in (DOMAIN a) \cup (DOMAIN b) |-> IF k \in DOMAIN b THEN b[k] ELSE a[k]]

EmptyItems == [k \in {} |-> JNull]

\* lines 59-73.  FlattenEntries(obj, parent_key, sep, n) is `items` after the
\* first n entries of json_obj.items(); FlattenList is the loop of line 69.
RECURSIVE FlattenEntries(_, _, _, _), FlattenList(_, _, _, _, _)
FlattenEntries(pairs, parent_key, sep, n) ==
    IF n = 0 THEN EmptyItems
    ELSE
        LET items == FlattenEntries(pairs, parent_key, sep, n - 1)
            k == pairs[n][1]
            v == pairs[n][2]
            new_key == NewKey(parent_key, sep, k)
        IN  IF v.t = "dict"
                THEN Update(items, FlattenEntries(v.v, new_key, sep, Len(v.v)))
            ELSE IF v.t = "list"
                THEN Update(items, FlattenList(k, v.v, parent_key, sep, Len(v.v)))
            ELSE Update(items, new_key :> v)

FlattenList(k, elems, parent_key, sep, n) ==
    IF n = 0 THEN EmptyItems
    ELSE
        LET items == FlattenList(k, elems, parent_key, sep, n - 1)
            i == n - 1
            synthetic == << <<k \o <<"_">> \o IntToStr(i), elems[n]>> >>
        IN  Update(items, FlattenEntries(synthetic, parent_key, sep, 1))

flatten_json(json_obj, parent_key, sep) ==
    FlattenEntries(json_obj.v, parent_key, sep, Len(json_obj.v))

\* lines 79-84 for one value; float(v) of a huge int raises OverflowError
CoercionRaises(v) ==
    v.t = "hugeint"

Coerce(v) ==
    IF v.t = "bool" THEN JStr(IF v.v = 1 THEN STR_True ELSE STR_False)
    ELSE IF IsInt(v) THEN JFloat(v.v * 10)
    \* line 84; flatten_json expands every list, so no list reaches this pass
    ELSE IF v.t = "list" THEN JStr(<<"[", "]">>)
    ELSE v

\* The value extract_parameters returns: [none |-> TRUE] stands for None.
ReturnNone == [none |-> TRUE, items |-> EmptyItems]
ReturnDict(items) == [none |-> FALSE, items |-> items]

\* lines 50-90.  payload.kind = "text" is text json.loads rejects; "json" is
\* text that decodes to payload.value.
extract_parameters(payload) ==
    IF payload.kind # "json" THEN ReturnNone              \* json.loads raises
    ELSE IF payload.value.t # "dict" THEN ReturnNone        \* .items() raises
    ELSE
        LET flat_payload == flatten_json(payload.value, <<>>, SEP)
        IN  IF \E key \in DOMAIN flat_payload : CoercionRaises(flat_payload[key])
                THEN ReturnNone
                ELSE ReturnDict([key \in DOMAIN flat_payload |-> Coerce(flat_payload[key])])

\* `if decoded_data:` None and {} are both falsy
Truthy(decoded_data) ==
    ~decoded_data.none /\ DOMAIN decoded_data.items # {}

(***************************************************************************)
(* extract_device_id.                                                      *)
(***************************************************************************)
\* line 48: index of the segment returned (parts[4], sequences here count from 1)
DeviceSegment(parts) ==
    parts[5]

\* parts[4] raises IndexError when the topic has fewer than 5 segments
DeviceIdRaises(topic) ==
    Len(Split(topic, "/")) < 5

extract_device_id(topic) ==
    DeviceSegment(Split(topic, "/"))

(***************************************************************************)
(* Inputs: the messages the broker may deliver.                            *)
(***************************************************************************)
KEY_dash == <<"x", "-", "y">>
KEY_dot == <<"x", ".", "y">>
KEY_plain == <<"k">>
KEY_empty == <<>>

\* keys and scalars of the generated payloads
Keys ==
    {KEY_dash, KEY_dot, KEY_plain}

Scalars ==
    {JNull, JBool(TRUE), JInt(7), JStr(<<"s">>)}

KeysOf(pairs) ==
    {pairs[i][1] : i \in 1..Len(pairs)}

\* JsonValues(n): the JSON values of at most n nodes; DictBodies(n) and
\* ListBodies(n): the entry lists whose values have at most n nodes in all.
RECURSIVE JsonValues(_), DictBodies(_), ListBodies(_)
JsonValues(n) ==
    IF n = 0 THEN {}
    ELSE Scalars
            \cup {JDict(b) : b \in DictBodies(n - 1)}
            \cup {JList(e) : e \in ListBodies(n - 1)}

DictBodies(n) ==
    {<<>>} \cup
    UNION { UNION { { Append(rest, <<k, v>>) : k \in Keys \ KeysOf(rest), v \in JsonValues(m) }
                    : rest \in DictBodies(n - m) }
            : m \in 1..n }

ListBodies(n) ==
    {<<>>} \cup
    UNION { UNION { { Append(rest, v) : v \in JsonValues(m) }
                    : rest \in ListBodies(n - m) }
            : m \in 1..n }

\* the two payloads of the normalizer's documented examples
EXAMPLE_nested ==
    JDict(<< << <<"a">>, JDict(<< << <<"b">>, JInt(1) >>, << <<"c">>, JBool(TRUE) >> >>) >> >>)

EXAMPLE_list ==
    JDict(<< << <<"x", "-", "y", ".", "z">>, JList(<<JInt(1), JInt(2)>>) >> >>)

\* payloads of shapes the generated ones do not have: floats, False, an
\* integer beyond the doubles, a device_id field (direct, nested, sanitized),
\* an empty key, a list of a mapping and a list, a key that meets a list index
Catalogue ==
    {EXAMPLE_nested, EXAMPLE_list,
     JDict(<< <<KEY_plain, JFloat(25)>>, <<KEY_dash, JBool(FALSE)>> >>),
     JDict(<< <<KEY_plain, JInt(7)>>, <<KEY_dot, JHugeInt>> >>),
     JDict(<< <<STR_device_id, JStr(<<"s">>)>> >>),
     JDict(<< <<STR_device_id, JInt(7)>>, <<KEY_plain, JInt(7)>> >>),
     JDict(<< << <<"d", "e", "v", "i", "c", "e">>, JDict(<< << <<"i", "d">>, JNull >> >>) >> >>),
     JDict(<< << <<"d", "e", "v", "i", "c", "e", "-", "i", "d">>, JFloat(25) >> >>),
     JDict(<< <<KEY_empty, JDict(<< <<KEY_dot, JInt(7)>> >>)>> >>),
     JDict(<< <<KEY_empty, JInt(7)>> >>),
     JDict(<< <<KEY_dash, JList(<< JDict(<< <<KEY_dot, JInt(7)>> >>),
                                   JList(<<JStr(<<"s">>), JFloat(25)>>) >>)>> >>),
     JDict(<< <<KEY_plain, JList(<<JInt(7)>>)>>, << <<"k", "_", "0">>, JStr(<<"s">>) >> >>)}

JsonPayload(value) == [kind |-> "json", value |-> value]

Payloads ==
    {[kind |-> "bytes", value |-> JNull],      \* bytes that are not UTF-8
     [kind |-> "text", value |-> JNull]}       \* text that is not JSON
        \cup {JsonPayload(JDict(b)) : b \in DictBodies(MaxNodes)}
        \cup {JsonPayload(v) : v \in JsonValues(1) \cup {JList(<<JInt(7)>>)}}
        \cup {JsonPayload(v) : v \in Catalogue}

TOPIC_example ==
    <<"a", "/", "b", "/", "c", "/", "d", "/",
      "d", "e", "v", "i", "c", "e", "4", "2", "/", "e">>
TOPIC_five == <<"v", "3", "/", "a", "p", "p", "/", "d", "/", "x", "/", "e", "d", "1">>
TOPIC_short == <<"a", "/", "b", "/", "c", "/", "d">>

Topics ==
    {TOPIC_example, TOPIC_five, TOPIC_short}

NoMessage == [topic |-> <<>>, payload |-> [kind |-> "none", value |-> JNull]]

(***************************************************************************)
(* on_message and write_to_influxdb.                                       *)
(***************************************************************************)
\* line 39: decoded_data["device_id"] = device_id replaces a flattened field
\* of the same name
InjectDeviceId_keepPayload(items, device_id) ==
    Update(STR_device_id :> JStr(device_id), items)

InjectDeviceId(items, device_id) ==
    Update(items, STR_device_id :> JStr(device_id))

\* lines 102-107: one point, the record as its fields
JsonBody(data) ==
    << [measurement |-> "xxxxxx", fields |-> data] >>

\* line 33 raises UnicodeDecodeError, line 36 raises IndexError
OnMessageRaises(msg) ==
    msg.payload.kind = "bytes" \/ DeviceIdRaises(msg.topic)

\* line 38: the guard of the write
WritesPoint_always(decoded_data) ==
    TRUE

WritesPoint(decoded_data) ==
    Truthy(decoded_data)

\* the network loop hands the next message of the subscription to on_message
Deliver ==
    /\ h_pc = "idle"
    /\ handled < MaxMessages
    /\ \E topic \in Topics, payload \in Payloads :
            message' = [topic |-> topic, payload |-> payload]
    /\ h_pc' = "callback"
    /\ handled' = handled + 1
    /\ outcome' = "none"
    /\ call_writes' = <<>>
    /\ UNCHANGED <<db_exists, points_stored, malformed>>

\* whether the payload is text that decodes to a JSON object
IsJsonObject(payload) ==
    payload.kind = "json" /\ payload.value.t = "dict"

\* lines 27-40 with write_to_influxdb (lines 92-108)
on_message ==
    /\ h_pc = "callback"
    /\ h_pc' = "done"
    /\ malformed' = IF IsJsonObject(message.payload) \/ message.payload.kind = "bytes"
                        THEN malformed ELSE malformed + 1
    /\ IF OnMessageRaises(message)
        THEN /\ outcome' = "raised"
             /\ UNCHANGED <<call_writes, db_exists, points_stored>>
        ELSE
            LET device_id == extract_device_id(message.topic)
                decoded_data == extract_parameters(message.payload)
            IN  IF WritesPoint(decoded_data)
                    THEN /\ call_writes' = Append(call_writes,
                                JsonBody(InjectDeviceId(decoded_data.items, device_id)))
                         /\ db_exists' = TRUE
                         /\ points_stored' = points_stored + 1
                         /\ outcome' = "written"
                    ELSE /\ outcome' = "dropped"
                         /\ UNCHANGED <<call_writes, db_exists, points_stored>>
    /\ UNCHANGED <<message, handled>>

\* the callback is over (it returned, or the loop outlived its exception): the
\* loop waits for the next message
Return ==
    /\ h_pc = "done"
    /\ h_pc' = "idle"
    /\ message' = NoMessage
    /\ outcome' = "none"
    /\ call_writes' = <<>>
    /\ UNCHANGED <<db_exists, points_stored, malformed, handled>>

(***************************************************************************)
(* connect_mqtt and the on_disconnect callback.                            *)
(***************************************************************************)
\* lines 122-124: after an exception the loop sleeps and goes round again
AfterFailure_giveUp ==
    "returned"

AfterFailure ==
    "sleep"

\* line 121: break leaves connect_mqtt
AfterSuccess ==
    "returned"

\* line 130: the callback calls connect_mqtt()
OnDisconnect ==
    "try"

\* lines 116-124: one turn of the while loop.  `raises` is the call of the try
\* block that raises in this turn, "none" when all three return.
Attempt ==
    /\ c_pc = "try"
    /\ \E raises \in {"connect", "subscribe", "loop_start", "none"} :
        /\ raises # "none" => failures < MaxFailures
        /\ link' = IF raises = "connect" THEN "down" ELSE "up"
        /\ subscribed' = (raises \in {"loop_start", "none"})
        /\ loop_running' = (loop_running \/ raises = "none")
        /\ failures' = IF raises = "none" THEN failures ELSE failures + 1
        /\ c_pc' = IF raises = "none" THEN AfterSuccess ELSE AfterFailure
    /\ UNCHANGED disconnects

\* line 124: time.sleep(5) is over
SleepDone ==
    /\ c_pc = "sleep"
    /\ c_pc' = "try"
    /\ UNCHANGED <<link, subscribed, loop_running, failures, disconnects>>

\* the connection is lost while the network thread is serving it: the thread
\* calls on_disconnect
Disconnect ==
    /\ c_pc = "returned"
    /\ link = "up"
    /\ loop_running
    /\ disconnects < MaxDisconnects
    /\ link' = "down"
    /\ subscribed' = FALSE
    /\ c_pc' = OnDisconnect
    /\ disconnects' = disconnects + 1
    /\ UNCHANGED <<loop_running, failures>>

\* the connection is lost while connect_mqtt is still retrying (after a turn in
\* which connect returned and a later call raised): no callback runs
LinkDrop ==
    /\ c_pc \in {"try", "sleep"}
    /\ link = "up"
    /\ disconnects < MaxDisconnects
    /\ link' = "down"
    /\ subscribed' = FALSE
    /\ disconnects' = disconnects + 1
    /\ UNCHANGED <<c_pc, loop_running, failures>>

(***************************************************************************)
(* The watcher: fetch_last_logged_time and what it calls.                  *)
(***************************************************************************)
Devices ==
    {"pilotdevice01", "pilotdevice05", "node7"}

\* lines 41-48 (the entries for the identifiers above)
device_name_map ==
    [d \in {"pilotdevice01", "pilotdevice05"} |->
        IF d = "pilotdevice01" THEN "ED1" ELSE "ED5"]

\* device_name_map.get(device_id, device_id)
MappedDeviceId(device_id) ==
    IF device_id \in DOMAIN device_name_map THEN device_name_map[device_id] ELSE device_id

\* line 130: timedelta(minutes=10)
ThresholdMinutes == 10

Seconds(n) == n * TicksPerSecond
Minutes(n) == Seconds(60 * n)
Hours(n) == Minutes(60 * n)

\* a point in time with the zone it is displayed in
Timestamp(instant, tz) == [instant |-> instant, tz |-> tz]

\* Timestamp.tz_convert: another zone, the same instant
TzConvert(ts, tz) == Timestamp(ts.instant, tz)

\* line 127: datetime.now(tz) - last_time_berlin, in ticks
TimeDiff(clock, last_time) ==
    Timestamp(clock, last_time.tz).instant - last_time.instant

\* line 130
IsStale_atThreshold(time_diff) ==
    time_diff >= Minutes(ThresholdMinutes)

IsStale(time_diff) ==
    time_diff > Minutes(ThresholdMinutes)

\* line 131: int(time_diff.total_seconds()), time_diff positive
TotalSeconds(time_diff) ==
    time_diff \div TicksPerSecond

\* line 132: divmod(total_seconds, 3600)[0]
AlertHours(total_seconds) ==
    total_seconds \div 3600

\* lines 132-133
AlertMinutes_noRemainder(total_seconds) ==
    total_seconds \div 60

AlertMinutes(total_seconds) ==
    ((total_seconds % 3600) \div 60) % 60

\* lines 137-141: the parts of alert_message that vary
StaleAlert(device_id, last_time, time_diff) ==
    [kind |-> "stale",
     device |-> device_id,
     label |-> MappedDeviceId(device_id),
     last_log_at |-> last_time,
     hours |-> AlertHours(TotalSeconds(time_diff)),
     minutes |-> AlertMinutes(TotalSeconds(time_diff))]

\* line 168
ErrorAlert ==
    [kind |-> "error", device |-> "", label |-> "",
     last_log_at |-> Timestamp(0, "UTC"), hours |-> 0, minutes |-> 0]

LogLine(level, line, device) == [level |-> level, line |-> line, device |-> device]

\* lines 51-64: send_telegram_alert.  `delivered` is whether requests.post and
\* raise_for_status returned; a RequestException is caught and logged.
TelegramLog(delivered) ==
    IF delivered
        THEN {LogLine("INFO", "Telegram alert sent", "")}
        ELSE {LogLine("ERROR", "Failed to send Telegram alert", "")}

\* lines 166-168: the handler of fetch_last_logged_time
HandlerAlerts ==
    <<ErrorAlert>>

\* lines 108-110: query_influxdb_for_device catches the exception of the query
\* and returns an empty frame
QueryExceptionPropagates_uncaught(query_raises) ==
    query_raises

QueryExceptionPropagates(query_raises) ==
    FALSE

\* the frame query_influxdb_for_device returns: the row of the device's last
\* point, or no row
QueryFrame(device_id, query_raises) ==
    IF query_raises \/ ~last_log[device_id].seen
        THEN <<>>
        ELSE << [time |-> Timestamp(last_log[device_id].at, "UTC"), id |-> device_id] >>

Unchecked == [d \in Devices |-> "unchecked"]

\* line 166: `except Exception` catches whatever the try block raises
FetchCatches(fault) ==
    TRUE

\* lines 166-168, entered with the exception of the try block
FetchHandler(fault, delivered) ==
    /\ s_pc' = "done"
    /\ IF FetchCatches(fault)
        THEN /\ alerts' = alerts \o HandlerAlerts
             /\ log' = log \cup {LogLine("ERROR", "Error fetching last logged time from InfluxDB", "")}
                           \cup (IF HandlerAlerts # <<>> THEN TelegramLog(delivered) ELSE {})
             /\ faults' = faults \cup {fault}
                           \cup (IF HandlerAlerts # <<>> /\ ~delivered THEN {"delivery"} ELSE {})
             /\ UNCHANGED escaped
        ELSE /\ escaped' = TRUE
             /\ faults' = faults \cup {fault}
             /\ UNCHANGED <<alerts, log>>

\* lines 154-161: the run up to the for loop
StartScan ==
    /\ s_pc = "idle"
    /\ scans < MaxScans
    /\ scans' = scans + 1
    /\ checked' = Unchecked
    /\ \E open_raises \in BOOLEAN, list_raises \in BOOLEAN, delivered \in BOOLEAN :
        IF open_raises
            THEN /\ FetchHandler("open", delivered)
                 /\ UNCHANGED <<pending, listed>>
        ELSE IF list_raises
            \* lines 82-84 and 159-161
            THEN /\ delivered
                 /\ log' = log \cup {LogLine("ERROR", "Error querying unique device IDs", ""),
                                     LogLine("ERROR", "No unique device IDs found.", "")}
                 /\ faults' = faults \cup {"list"}
                 /\ s_pc' = "done"
                 /\ UNCHANGED <<pending, listed, alerts, escaped>>
        ELSE
            LET unique_device_ids == {d \in Devices : last_log[d].seen}
            IN  /\ delivered
                /\ listed' = unique_device_ids
                /\ pending' = unique_device_ids
                /\ IF unique_device_ids = {}
                    THEN /\ log' = log \cup {LogLine("ERROR", "No unique device IDs found.", "")}
                         /\ s_pc' = "done"
                    ELSE /\ log' = log
                         /\ s_pc' = "loop"
                /\ UNCHANGED <<alerts, faults, escaped>>
    /\ UNCHANGED <<now, last_log, prev_alerted>>

\* lines 163-164 with check_and_alert_for_device (lines 113-146): one turn of
\* the for loop, for any identifier not iterated yet
CheckDevice(device_id) ==
    /\ s_pc = "loop"
    /\ device_id \in pending
    /\ \E query_raises \in BOOLEAN, eval_raises \in BOOLEAN, delivered \in BOOLEAN :
        LET df == QueryFrame(device_id, query_raises)
            query_log == IF query_raises
                            THEN {LogLine("ERROR", "Error querying data for device", device_id)}
                            ELSE {}
            query_fault == IF query_raises THEN {"query"} ELSE {}
            next_pc == IF pending = {device_id} THEN "done" ELSE "loop"
        IN  IF QueryExceptionPropagates(query_raises)
                THEN /\ ~eval_raises
                     /\ FetchHandler("query", delivered)
                     /\ checked' = [checked EXCEPT ![device_id] = "query_failed"]
                     /\ UNCHANGED pending
            ELSE IF df = <<>>
                \* lines 144-146
                THEN /\ ~eval_raises /\ delivered
                     /\ log' = log \cup query_log
                            \cup {LogLine("WARNING", "No data found for Device ID", MappedDeviceId(device_id))}
                     /\ faults' = faults \cup query_fault
                     /\ checked' = [checked EXCEPT ![device_id] =
                                        IF query_raises THEN "query_failed" ELSE "absent"]
                     /\ pending' = pending \ {device_id}
                     /\ s_pc' = next_pc
                     /\ UNCHANGED <<alerts, escaped>>
            ELSE IF eval_raises
                \* lines 123-127 raise: the exception leaves the for loop
                THEN /\ FetchHandler("eval", delivered)
                     /\ checked' = [checked EXCEPT ![device_id] = "eval_failed"]
                     /\ UNCHANGED pending
            ELSE
                LET last_time_utc == df[1].time
                    last_time_berlin == TzConvert(last_time_utc, "Europe/Berlin")
                    time_diff == TimeDiff(now, last_time_berlin)
                IN  /\ IF IsStale(time_diff)
                            THEN /\ alerts' = Append(alerts,
                                        StaleAlert(device_id, last_time_berlin, time_diff))
                                 /\ log' = log \cup TelegramLog(delivered)
                                        \cup {LogLine("WARNING", "ALERT: Device has not logged data", device_id)}
                                 /\ faults' = faults \cup (IF delivered THEN {} ELSE {"delivery"})
                                 /\ checked' = [checked EXCEPT ![device_id] = "stale"]
                            ELSE /\ delivered
                                 /\ checked' = [checked EXCEPT ![device_id] = "fresh"]
                                 /\ UNCHANGED <<alerts, log, faults>>
                    /\ pending' = pending \ {device_id}
                    /\ s_pc' = next_pc
                    /\ UNCHANGED escaped
    /\ UNCHANGED <<now, last_log, listed, scans, prev_alerted>>

\* the store drops the points of a device (retention, deletion) while a run is
\* between the listing query and the device's own query
Expire(device_id) ==
    /\ s_pc = "loop"
    /\ device_id \in pending
    /\ last_log[device_id].seen
    /\ last_log' = [last_log EXCEPT ![device_id] = [seen |-> FALSE, at |-> 0]]
    /\ UNCHANGED <<s_pc, now, pending, listed, checked, alerts, log, faults, escaped,
                   scans, prev_alerted>>

AlertedDevices ==
    {alerts[i].device : i \in {j \in 1..Len(alerts) : alerts[j].kind = "stale"}}

\* main() returns; time passes until the scheduler starts the next run
Elapse ==
    /\ s_pc = "done"
    /\ s_pc' = "idle"
    /\ \E delta \in {1, Minutes(5)} : now' = now + delta
    /\ prev_alerted' = AlertedDevices
    /\ pending' = {}
    /\ listed' = {}
    /\ checked' = Unchecked
    /\ alerts' = <<>>
    /\ log' = {}
    /\ faults' = {}
    /\ escaped' = FALSE
    /\ UNCHANGED <<last_log, scans>>

\* between two runs the bridge stores a new point of a device
LogPoint(device_id) ==
    /\ s_pc = "idle"
    /\ scans > 0
    /\ last_log[device_id] # [seen |-> TRUE, at |-> now]
    /\ last_log' = [last_log EXCEPT ![device_id] = [seen |-> TRUE, at |-> now]]
    /\ UNCHANGED <<s_pc, now, pending, listed, checked, alerts, log, faults, escaped,
                   scans, prev_alerted>>

(***************************************************************************)
(* Specifications.  Each runs one component; the other two stay parked.    *)
(***************************************************************************)
IngestInit ==
    /\ h_pc = "idle"
    /\ message = NoMessage
    /\ outcome = "none"
    /\ call_writes = <<>>
    /\ db_exists \in BOOLEAN
    /\ points_stored = 0
    /\ malformed = 0
    /\ handled = 0
    \* the supervisor and the watcher stay parked
    /\ c_pc = "returned" /\ link = "up" /\ subscribed = TRUE /\ loop_running = TRUE
    /\ failures = 0 /\ disconnects = 0
    /\ s_pc = "idle" /\ now = 0
    /\ last_log = [d \in Devices |-> [seen |-> FALSE, at |-> 0]]
    /\ pending = {} /\ listed = {} /\ checked = Unchecked /\ alerts = <<>>
    /\ log = {} /\ faults = {} /\ escaped = FALSE /\ scans = 0 /\ prev_alerted = {}

ConnInit ==
    /\ c_pc = "try"             \* line 133: the script calls connect_mqtt()
    /\ link = "down"
    /\ subscribed = FALSE
    /\ loop_running = FALSE
    /\ failures = 0
    /\ disconnects = 0
    \* the bridge and the watcher stay parked
    /\ h_pc = "idle" /\ message = NoMessage /\ outcome = "none" /\ call_writes = <<>>
    /\ db_exists = FALSE /\ points_stored = 0 /\ malformed = 0 /\ handled = 0
    /\ s_pc = "idle" /\ now = 0
    /\ last_log = [d \in Devices |-> [seen |-> FALSE, at |-> 0]]
    /\ pending = {} /\ listed = {} /\ checked = Unchecked /\ alerts = <<>>
    /\ log = {} /\ faults = {} /\ escaped = FALSE /\ scans = 0 /\ prev_alerted = {}

WatchInit ==
    /\ s_pc = "idle"
    /\ now = 0
    /\ last_log \in [Devices ->
            {[seen |-> FALSE, at |-> 0]} \cup
            {[seen |-> TRUE, at |-> 0 - age] :
                age \in {Minutes(5), Minutes(10), Minutes(15),
                         Hours(25) + Minutes(61) + Seconds(1) + 1}}]
    /\ pending = {}
    /\ listed = {}
    /\ checked = Unchecked
    /\ alerts = <<>>
    /\ log = {}
    /\ faults = {}
    /\ escaped = FALSE
    /\ scans = 0
    /\ prev_alerted = {}
    \* the bridge and the supervisor stay parked
    /\ h_pc = "idle" /\ message = NoMessage /\ outcome = "none" /\ call_writes = <<>>
    /\ db_exists = FALSE /\ points_stored = 0 /\ malformed = 0 /\ handled = 0
    /\ c_pc = "returned" /\ link = "up" /\ subscribed = TRUE /\ loop_running = TRUE
    /\ failures = 0 /\ disconnects = 0

IngestNext ==
    \/ Deliver /\ UNCHANGED <<conn_vars, watch_vars>>
    \/ on_message /\ UNCHANGED <<conn_vars, watch_vars>>
    \/ Return /\ UNCHANGED <<conn_vars, watch_vars>>

ConnNext ==
    \/ Attempt /\ UNCHANGED <<ingest_vars, watch_vars>>
    \/ SleepDone /\ UNCHANGED <<ingest_vars, watch_vars>>
    \/ Disconnect /\ UNCHANGED <<ingest_vars, watch_vars>>
    \/ LinkDrop /\ UNCHANGED <<ingest_vars, watch_vars>>

WatchNext ==
    \/ StartScan /\ UNCHANGED <<ingest_vars, conn_vars>>
    \/ (\E d \in Devices : CheckDevice(d)) /\ UNCHANGED <<ingest_vars, conn_vars>>
    \/ (\E d \in Devices : Expire(d)) /\ UNCHANGED <<ingest_vars, conn_vars>>
    \/ Elapse /\ UNCHANGED <<ingest_vars, conn_vars>>
    \/ (\E d \in Devices : LogPoint(d)) /\ UNCHANGED <<ingest_vars, conn_vars>>

\* the bridge handling messages
SpecIngest ==
    IngestInit /\ [][IngestNext]_vars

\* the connection supervisor; the retry loop keeps running and sleep returns
SpecConn ==
    /\ ConnInit
    /\ [][ConnNext]_vars
    /\ WF_vars(Attempt /\ UNCHANGED <<ingest_vars, watch_vars>>)
    /\ WF_vars(SleepDone /\ UNCHANGED <<ingest_vars, watch_vars>>)

\* the watcher, run after run
SpecWatch ==
    WatchInit /\ [][WatchNext]_vars

(***************************************************************************)
(* Properties of the bridge (checked under SpecIngest).                    *)
(***************************************************************************)
\* what extract_parameters returns for the message in hand
Returned ==
    extract_parameters(message.payload)

\* the message in hand has been through on_message and carries a JSON object
ObjectHandled ==
    h_pc = "done" /\ IsJsonObject(message.payload)

\* the scalar leaves of a value with their paths: a mapping adds its key, a
\* sequence adds the index of the element
RECURSIVE LeafPaths(_, _)
LeafPaths(value, path) ==
    IF value.t = "dict"
        THEN UNION { LeafPaths(value.v[n][2], Append(path, value.v[n][1])) : n \in 1..Len(value.v) }
    ELSE IF value.t = "list"
        THEN UNION { LeafPaths(value.v[n], Append(path, IntToStr(n - 1))) : n \in 1..Len(value.v) }
    ELSE { [path |-> path, leaf |-> value] }

Sanitized(segment) ==
    [i \in 1..Len(segment) |-> IF segment[i] \in {"-", "."} THEN "_" ELSE segment[i]]

\* the sanitized segments of a path joined with "_"
RECURSIVE PathKey(_)
PathKey(path) ==
    IF Len(path) = 1 THEN Sanitized(path[1])
    ELSE PathKey(SubSeq(path, 1, Len(path) - 1)) \o <<"_">> \o Sanitized(path[Len(path)])

\* the type-coercion rule of a leaf: boolean to its string, integer to float
CoercedLeaf(leaf) ==
    IF leaf.t = "bool" THEN JStr(IF leaf.v = 1 THEN STR_True ELSE STR_False)
    ELSE IF leaf.t \in {"int", "hugeint"} THEN JFloat(leaf.v * 10)
    ELSE leaf

\* C1 (as claimed): every value of the record extract_parameters returns for a
\* JSON object is a string or a float.
C1_ValuesAreStringOrFloat ==
    ObjectHandled /\ ~Returned.none =>
        \A key \in DOMAIN Returned.items : Returned.items[key].t \in {"str", "float"}

\* C2: no key of the record extract_parameters returns for a JSON object holds
\* a '-' or a '.', at any depth and through mappings and lists alike.
C2_KeysAreSanitized ==
    ObjectHandled =>
        \A key \in DOMAIN Returned.items :
            \A i \in 1..Len(key) : key[i] \notin {"-", "."}

\* a record was returned whose keys come from '-' and '.' keys under a list
C2_Witness ==
    /\ ObjectHandled
    /\ message.payload.value =
            JDict(<< <<KEY_dash, JList(<< JDict(<< <<KEY_dot, JInt(7)>> >>),
                                          JList(<<JStr(<<"s">>), JFloat(25)>>) >>)>> >>)
    /\ DOMAIN Returned.items =
            {<<"x", "_", "y", "_", "0", "_", "x", "_", "y">>,
             <<"x", "_", "y", "_", "1", "_", "0">>,
             <<"x", "_", "y", "_", "1", "_", "1">>}

\* C3 (as claimed): every scalar leaf of a JSON object payload is stored under
\* the '_'-joined sanitized segments of its path, with the coerced leaf as value.
C3_LeafStoredUnderPathKey ==
    ObjectHandled =>
        \A lp \in LeafPaths(message.payload.value, <<>>) :
            /\ ~Returned.none
            /\ PathKey(lp.path) \in DOMAIN Returned.items
            /\ Returned.items[PathKey(lp.path)] = CoercedLeaf(lp.leaf)

\* C4: a payload that is not JSON, or decodes to something other than an
\* object, makes extract_parameters return None and on_message write nothing;
\* a well-formed message is written whatever was dropped before it.
C4_MalformedDroppedNextWritten ==
    h_pc = "done" /\ ~OnMessageRaises(message) =>
        /\ ~IsJsonObject(message.payload) =>
                Returned.none /\ outcome = "dropped" /\ call_writes = <<>>
        /\ IsJsonObject(message.payload) /\ Truthy(Returned) =>
                outcome = "written" /\ Len(call_writes) = 1

\* a message is written after an earlier one was malformed and dropped
C4_Witness ==
    /\ h_pc = "done"
    /\ malformed >= 1
    /\ IsJsonObject(message.payload)
    /\ outcome = "written"
    /\ points_stored = 1

\* the identifier the topics of the model carry at index 4
ExpectedDeviceId(topic) ==
    IF topic = TOPIC_example THEN <<"d", "e", "v", "i", "c", "e", "4", "2">>
    ELSE <<"e", "d", "1">>

\* C5: on a topic of at least 5 segments on_message writes exactly one point
\* when the record is non-empty and none when it is empty or absent; the
\* point's device_id is the topic segment at index 4, also when the payload
\* flattens to a device_id field of its own.
C5_OnePointWithTopicDeviceId ==
    h_pc = "done" /\ message.topic \in {TOPIC_example, TOPIC_five} =>
        IF message.payload.kind # "bytes" /\ Truthy(Returned)
            THEN /\ Len(call_writes) = 1
                 /\ Len(call_writes[1]) = 1
                 /\ call_writes[1][1].fields[STR_device_id]
                        = JStr(ExpectedDeviceId(message.topic))
                 /\ \A key \in DOMAIN Returned.items \ {STR_device_id} :
                        call_writes[1][1].fields[key] = Returned.items[key]
            ELSE call_writes = <<>>

\* a payload whose own device_id differs from the topic's was written
C5_Witness ==
    /\ h_pc = "done"
    /\ message.topic = TOPIC_example
    /\ STR_device_id \in DOMAIN Returned.items
    /\ Returned.items[STR_device_id] = JStr(<<"s">>)
    /\ Len(call_writes) = 1

(***************************************************************************)
(* Properties of the watcher (checked under SpecWatch).                    *)
(***************************************************************************)
\* the alerts of this run about one device
StaleAlertsOf(device_id) ==
    {i \in 1..Len(alerts) : alerts[i].kind = "stale" /\ alerts[i].device = device_id}

ErrorAlerts ==
    {i \in 1..Len(alerts) : alerts[i].kind = "error"}

\* ticks since the last stored point of a device
Elapsed(device_id) ==
    now - last_log[device_id].at

\* C6: in every run a device whose last-seen time was read gets exactly one
\* alert when more than 10 minutes have passed and none when 10 minutes or
\* less have, whether or not it was alerted in the run before.
C6_AlertIffOverThreshold ==
    \A d \in Devices :
        checked[d] \in {"fresh", "stale"} =>
            /\ last_log[d].seen
            /\ Cardinality(StaleAlertsOf(d)) =
                    IF Elapsed(d) > 10 * 60 * TicksPerSecond THEN 1 ELSE 0
            /\ checked[d] = "stale" <=> Elapsed(d) > 10 * 60 * TicksPerSecond

\* a device alerted in the previous run is alerted again in the second run,
\* next to a device at exactly 10 minutes that is not
C6_Witness ==
    /\ s_pc = "done"
    /\ scans = 2
    /\ \E d \in prev_alerted : Cardinality(StaleAlertsOf(d)) = 1
    /\ \E d \in Devices :
            /\ checked[d] = "fresh"
            /\ Elapsed(d) = 10 * 60 * TicksPerSecond

\* C7: an identifier whose query returns no row or raises gets no alert, and
\* the run goes on to the identifiers that remain: the loop ends early only
\* when evaluating a returned timestamp raises.
C7_AbsentOrFailedQueryIsSkipped ==
    /\ \A d \in Devices :
            checked[d] \in {"absent", "query_failed"} => StaleAlertsOf(d) = {}
    /\ s_pc = "loop" => pending = {d \in listed : checked[d] = "unchecked"} /\ pending # {}
    /\ s_pc = "done" /\ listed # {} /\ "eval" \notin faults =>
            \A d \in listed : checked[d] # "unchecked"
    /\ "query" \in faults /\ "eval" \notin faults => ErrorAlerts = {}

\* one query raised, one returned no row, and the third device was still
\* checked and alerted
C7_Witness ==
    /\ s_pc = "done"
    /\ checked["pilotdevice01"] = "query_failed"
    /\ checked["node7"] = "absent"
    /\ checked["pilotdevice05"] = "stale"
    /\ Len(alerts) = 1

ErrorLogged(line) ==
    \E l \in log : l.level = "ERROR" /\ l.line = line

\* C8 (as claimed): every failure of a run surfaces as an alert message plus a
\* log line, and no exception leaves fetch_last_logged_time.
C8_EveryFailureAlertsAndLogs ==
    s_pc = "done" =>
        /\ ~escaped
        /\ \A f \in faults :
            /\ \E l \in log : l.level = "ERROR"
            /\ IF f = "delivery" THEN alerts # <<>> ELSE ErrorAlerts # {}

\* What the code does instead: failures that reach the handler of
\* fetch_last_logged_time (opening the connection, evaluating a timestamp)
\* give one alert message and an error log line; a failed listing or
\* per-identifier query gives an error log line and no alert; a failed
\* delivery is logged; nothing escapes.
HandlerAlertsQueriesOnlyLog ==
    s_pc = "done" =>
        /\ ~escaped
        /\ Cardinality(ErrorAlerts) = IF faults \cap {"open", "eval"} # {} THEN 1 ELSE 0
        /\ faults \cap {"open", "eval"} # {} =>
                ErrorLogged("Error fetching last logged time from InfluxDB")
        /\ "list" \in faults =>
                ErrorLogged("Error querying unique device IDs") /\ alerts = <<>>
        /\ "query" \in faults => ErrorLogged("Error querying data for device")
        /\ "delivery" \in faults => ErrorLogged("Failed to send Telegram alert")

\* a run in which a query failed without an alert and an evaluation failed
\* with one, whose delivery failed too
QueryAndEvaluationFailed ==
    /\ s_pc = "done"
    /\ faults = {"query", "eval", "delivery"}
    /\ Cardinality(ErrorAlerts) = 1
    /\ Len(alerts) = 1

\* C9: an alert reports hours = T div 3600 and minutes = (T mod 3600) div 60
\* of the elapsed whole seconds T: minutes stay in 0..59, hours are not
\* capped, and hours * 60 + minutes = T div 60.
C9_HoursAndMinutesOfElapsed ==
    \A i \in 1..Len(alerts) :
        alerts[i].kind = "stale" =>
            LET ticks == now - alerts[i].last_log_at.instant
                T == ticks \div TicksPerSecond
            IN  /\ ticks > 10 * 60 * TicksPerSecond
                /\ alerts[i].hours = T \div 3600
                /\ alerts[i].minutes = (T % 3600) \div 60
                /\ alerts[i].minutes \in 0..59
                /\ alerts[i].hours * 60 + alerts[i].minutes = T \div 60
                /\ ticks = 15 * 60 * TicksPerSecond =>
                        alerts[i].hours = 0 /\ alerts[i].minutes = 15

\* an alert of 26 hours and 1 minute next to one of 0 hours and 15 minutes
C9_Witness ==
    /\ \E i \in 1..Len(alerts) :
            alerts[i].kind = "stale" /\ alerts[i].hours = 26 /\ alerts[i].minutes = 1
    /\ \E i \in 1..Len(alerts) :
            alerts[i].kind = "stale" /\ alerts[i].hours = 0 /\ alerts[i].minutes = 15

(***************************************************************************)
(* Properties of the connection supervisor (checked under SpecConn).       *)
(***************************************************************************)
Connected ==
    c_pc = "returned" /\ link = "up" /\ subscribed /\ loop_running

\* C10: connect_mqtt returns only from a turn in which connect, subscribe and
\* loop_start all returned, sleeps and retries after every failed turn, is
\* started again by every disconnect event, and so, once the broker stops
\* refusing, the client ends up connected and subscribed again.
C10_RetriesUntilSubscribed ==
    /\ [][c_pc # "returned" /\ c_pc' = "returned" => Connected']_vars
    /\ [][failures' # failures => c_pc' = "sleep"]_vars
    /\ [][c_pc = "returned" /\ link = "up" /\ link' = "down" => c_pc' = "try"]_vars
    /\ (c_pc = "sleep") ~> (c_pc = "try")
    /\ (link = "down") ~> Connected
    /\ (c_pc # "returned") ~> Connected

\* connected and subscribed again after failed attempts and a disconnect
C10_Witness ==
    /\ Connected
    /\ failures >= 2
    /\ disconnects >= 1

====
